---- MODULE Spec2Model ----
(***************************************************************************)
(* Model of bolo.instrument.Instrument (src/python/bolo/instrument.py):    *)
(* the staged evaluation protocol run() = eval_sky, eval_instrument,       *)
(* eval_sensitivities, make_tables, the keyed Sensitivity collection       *)
(* _sns_dict and the keyed table collection _tables.                       *)
(*                                                                         *)
(* Python strings are sequences of one-character strings, so that          *)
(* concatenation ("%s%s" % ...) and str.find are computed, not assumed.    *)
(* Ordered dictionaries are sequences of entries with distinct keys.       *)
(***************************************************************************)
EXTENDS Integers, Sequences, FiniteSets, TLC

(***************************************************************************)
(* Bounds and input sets                                                   *)
(***************************************************************************)

\* sample counts nsky_sim, ndet_sim, nsamples range over 0..MaxSim
MaxSim == 2

SimCounts == 0..MaxSim

\* sim_cfg.freq_resol: None or a resolution
FreqResols == {"None", "res"}

\* the marker searched by make_tables, '_summary' (line 81)
SummaryMarker == <<"_", "s", "u", "m", "m", "a", "r", "y">>

\* the suffix of the merged table's name, "%ssummary" (line 83)
SummaryName == <<"s", "u", "m", "m", "a", "r", "y">>

\* basenames given to run() and make_tables(): "" (the default) and "r_summary"
Basenames == { <<>>, <<"r">> \o SummaryMarker }

\* camera hierarchies (camera name -> channel names), as build_cameras may
\* return them: mapping keys are distinct, nothing else is constrained
Cam(name, chans) == [name |-> name, channels |-> chans]

Hier2x2 ==
    << Cam(<<"a">>, << <<"x">>, <<"y">> >>), Cam(<<"b">>, << <<"x">>, <<"y">> >>) >>

HierClash ==
    << Cam(<<"a">>, << <<"b", "c">> >>), Cam(<<"a", "b">>, << <<"c">> >>) >>

HierBlank == << Cam(<<>>, << <<>> >>) >>

HierNone == << >>

Hierarchies == { Hier2x2, HierClash, HierBlank, HierNone }

(***************************************************************************)
(* Python primitives                                                       *)
(***************************************************************************)

\* max(a, b)
Max(a, b) == IF a >= b THEN a ELSE b

\* whether sub occurs in s at 0-based position i
OccursAt(s, sub, i) ==
    /\ i + Len(sub) <= Len(s)
    /\ \A k \in 1..Len(sub) : s[i + k] = sub[k]

\* str.find: the lowest 0-based index where sub occurs in s, or -1
Find(s, sub) ==
    LET hits == { i \in 0..Len(s) : OccursAt(s, sub, i) }
    IN  IF hits = {} THEN -1
        ELSE CHOOSE i \in hits : \A j \in hits : i <= j

\* keys of an ordered dictionary, in order
Keys(d) == [i \in 1..Len(d) |-> d[i].key]

\* index of key in an ordered dictionary, 0 when absent
IndexOf(d, key) ==
    LET hits == { i \in 1..Len(d) : d[i].key = key }
    IN  IF hits = {} THEN 0 ELSE CHOOSE i \in hits : TRUE

\* d[key] = entry: replaces the value in place when the key is present,
\* appends otherwise
Put(d, entry) ==
    LET i == IndexOf(d, entry.key)
    IN  IF i = 0 THEN Append(d, entry) ELSE [d EXCEPT ![i] = entry]

(***************************************************************************)
(* Collaborators                                                           *)
(***************************************************************************)

\* one call on a collaborator (universe, obs_effic, a camera): the callee,
\* the camera it is called on (<<>> when it is no camera call), the sample
\* count (-1 when the call takes none) and the frequency resolution
\* ("n/a" when the call takes none)
Call(fn, cam, n, r) == [fn |-> fn, cam |-> cam, n |-> n, r |-> r]

\* the number of samples an object holds after sample(n): n draws, or the
\* single deterministic value when n = 0
SampleSize(n) == IF n = 0 THEN 1 ELSE n

SkyFns == {"universe.sample", "obs_effic.sample", "camera.eval_sky"}

InstFns == {"camera.sample", "camera.eval_optical_chains", "camera.eval_det_response"}

\* Sensitivity(channel): the object built for channel chan of camera cam.
\* by records which invocation built it: "run" (the run() in progress or
\* the one that returned last) or "other" (a stage method called directly,
\* or anything built before the last run() began)
Sensitivity(key, cam, chan, by) == [key |-> key, cam |-> cam, chan |-> chan, by |-> by]

\* a table: its name in the collection and its rows, each row naming the
\* Sensitivity it came from and whether it is a summary or a per-sample row
Table(name, rows, by) == [key |-> name, rows |-> rows, by |-> by]

Row(key, kind) == [key |-> key, kind |-> kind]

SimsSuffix == <<"_", "s", "i", "m", "s">>

\* Sensitivity.make_tables(name_prefix, tables, save_summary, save_sim):
\* a per-channel summary table and a per-sample detail table, as requested
SensitivityMakeTables(t, prefix, key, save_summary, save_sim, by) ==
    LET t1 == IF save_summary
              THEN Put(t, Table(prefix \o SummaryMarker, << Row(key, "summary") >>, by))
              ELSE t
    IN  IF save_sim
        THEN Put(t1, Table(prefix \o SimsSuffix, << Row(key, "sims") >>, by))
        ELSE t1

\* one call on a Sensitivity, on the table collection or on the output
\* stream: the callee, the key of the Sensitivity it is called on (<<>> when
\* it is none), the name given (a table name, a name prefix, a file name, a
\* line of text), the two flags (FALSE when the call takes none) and the
\* table names of the collection handed over (<<>> when none is)
Out(fn, on, name, save_summary, save_sim, keys) ==
    [fn |-> fn, on |-> on, name |-> name, save_summary |-> save_summary,
     save_sim |-> save_sim, keys |-> keys]

\* astropy.table.vstack of a non-empty list of tables: their rows, in order
RECURSIVE VStack(_)
VStack(tabs) ==
    IF tabs = << >> THEN << >> ELSE Head(tabs).rows \o VStack(Tail(tabs))

(***************************************************************************)
(* Instrument: the stage methods as functions of the state they read       *)
(***************************************************************************)

\* eval_sky sampling obs_effic with the default count instead of nsamples
EvalSkyCallsObsEfficDefault(cams, nsamples, freq_resol) ==
    << Call("universe.sample", << >>, nsamples, "n/a"),
       Call("obs_effic.sample", << >>, 0, "n/a") >>
    \o [i \in 1..Len(cams) |-> Call("camera.eval_sky", cams[i].name, -1, freq_resol)]

\* eval_sky with the sky model sampled after the cameras' eval_sky
EvalSkyCallsUniverseLast(cams, nsamples, freq_resol) ==
    [i \in 1..Len(cams) |-> Call("camera.eval_sky", cams[i].name, -1, freq_resol)]
    \o << Call("universe.sample", << >>, nsamples, "n/a"),
          Call("obs_effic.sample", << >>, nsamples, "n/a") >>

\* eval_sky (lines 52-55): the collaborator calls it makes, in order
EvalSkyCalls(cams, nsamples, freq_resol) ==
    << Call("universe.sample", << >>, nsamples, "n/a"),
       Call("obs_effic.sample", << >>, nsamples, "n/a") >>
    \o [i \in 1..Len(cams) |-> Call("camera.eval_sky", cams[i].name, -1, freq_resol)]

\* the loop body with the detector response evaluated before the optical chain
CameraCallsDetFirst(cam, nsamples, freq_resol) ==
    << Call("camera.sample", cam.name, nsamples, "n/a"),
       Call("camera.eval_det_response", cam.name, nsamples, freq_resol),
       Call("camera.eval_optical_chains", cam.name, nsamples, freq_resol) >>

\* the body of eval_instrument's loop (lines 60-62) for one camera
CameraCalls(cam, nsamples, freq_resol) ==
    << Call("camera.sample", cam.name, nsamples, "n/a"),
       Call("camera.eval_optical_chains", cam.name, nsamples, freq_resol),
       Call("camera.eval_det_response", cam.name, nsamples, freq_resol) >>

\* eval_instrument (lines 59-62): the collaborator calls it makes, in order
RECURSIVE EvalInstrumentCalls(_, _, _)
EvalInstrumentCalls(cams, nsamples, freq_resol) ==
    IF cams = << >> THEN << >>
    ELSE CameraCalls(Head(cams), nsamples, freq_resol)
         \o EvalInstrumentCalls(Tail(cams), nsamples, freq_resol)

\* the (camera, channel) pairs in the iteration order of lines 67-68
RECURSIVE Pairs(_)
Pairs(cams) ==
    IF cams = << >> THEN << >>
    ELSE [i \in 1..Len(Head(cams).channels) |->
            [cam |-> Head(cams).name, chan |-> Head(cams).channels[i]]]
         \o Pairs(Tail(cams))

\* the key without the camera name
FullNameChannelOnly(cam_name, chan_name) == chan_name

\* full_name = "%s%s" % (cam_name, chan_name) (line 69)
FullName(cam_name, chan_name) == cam_name \o chan_name

\* the store as setdefault: an existing entry is kept
StoreSensitivityKeepFirst(d, pair, by) ==
    IF IndexOf(d, pair.cam \o pair.chan) # 0 THEN d
    ELSE Append(d, Sensitivity(pair.cam \o pair.chan, pair.cam, pair.chan, by))

\* self._sns_dict[full_name] = Sensitivity(channel) (line 70)
StoreSensitivity(d, pair, by) ==
    Put(d, Sensitivity(FullName(pair.cam, pair.chan), pair.cam, pair.chan, by))

\* the loop starting from the entries already there
KeepSnsDict(old) == old

\* self._sns_dict = odict() (line 66): the collection the loop starts from
NewSnsDict(old) == << >>

\* the loop of lines 67-70 over the pairs still to visit
RECURSIVE FillSnsDict(_, _, _)
FillSnsDict(d, pairs, by) ==
    IF pairs = << >> THEN d
    ELSE FillSnsDict(StoreSensitivity(d, Head(pairs), by), Tail(pairs), by)

\* eval_sensitivities (lines 66-70): the new entries of _sns_dict
EvalSensitivities(old, cams, by) == FillSnsDict(NewSnsDict(old), Pairs(cams), by)

\* make_tables filling the collection of the previous call
KeepTableDict(old) == old

\* self._tables = TableDict() (line 74): the collection the loop starts from
NewTableDict(old) == << >>

\* the loop of lines 75-76 over the entries of _sns_dict still to visit
RECURSIVE FillTables(_, _, _, _, _, _)
FillTables(t, sns, basename, save_summary, save_sim, by) ==
    IF sns = << >> THEN t
    ELSE FillTables(
            SensitivityMakeTables(t, basename \o Head(sns).key, Head(sns).key,
                                  save_summary, save_sim, by),
            Tail(sns), basename, save_summary, save_sim, by)

\* key.find('_summary') > 0 (line 81)
IsSumKey(key) == Find(key, SummaryMarker) > 0

\* sum_keys (line 81)
SumKeys(t) == SelectSeq(Keys(t), IsSumKey)

\* [self._tables.pop_table(sum_key) for sum_key in sum_keys] (line 82):
\* the tables popped, in the order of sum_keys
Popped(t, sum_keys) == [i \in 1..Len(sum_keys) |-> t[IndexOf(t, sum_keys[i])]]

\* the collection once every key of sum_keys is popped (line 82)
AfterPop(t, sum_keys) ==
    SelectSeq(t, LAMBDA e : \A i \in 1..Len(sum_keys) : e.key # sum_keys[i])

\* the calls val.make_tables(...) of the loop of lines 75-76, in order
SensitivityCalls(sns, basename, save_summary, save_sim) ==
    [i \in 1..Len(sns) |->
        Out("Sensitivity.make_tables", sns[i].key, basename \o sns[i].key,
            save_summary, save_sim, << >>)]

\* the calls pop_table(sum_key) of line 82, in order
PopCalls(sum_keys) ==
    [i \in 1..Len(sum_keys) |-> Out("pop_table", << >>, sum_keys[i], FALSE, FALSE, << >>)]

\* the call add_datatable("%ssummary" % basename, sum_table) of line 83
AddCall(basename) == Out("add_datatable", << >>, basename \o SummaryName, FALSE, FALSE, << >>)

\* make_tables with a vstack that returns an empty table for an empty list
MakeTablesEmptySummary(sns, old, basename, save_summary, save_sim, by) ==
    LET t1 == FillTables(<< >>, sns.items, basename, save_summary, save_sim, by)
        sum_keys == SumKeys(t1)
        t2 == AfterPop(t1, sum_keys)
        rows == IF sum_keys = << >> THEN << >> ELSE VStack(Popped(t1, sum_keys))
        sum_table == Table(basename \o SummaryName, rows, by)
        made == SensitivityCalls(sns.items, basename, save_summary, save_sim)
    IN  IF ~sns.set
        THEN [items |-> << >>, exc |-> "AttributeError", out |-> << >>, ret |-> "none"]
        ELSE IF ~save_summary
        THEN [items |-> t1, exc |-> "none", out |-> made, ret |-> "self._tables"]
        ELSE [items |-> Put(t2, sum_table), exc |-> "none",
              out |-> made \o PopCalls(sum_keys) \o << AddCall(basename) >>,
              ret |-> "self._tables"]

\* make_tables without the early return of lines 79-80
MakeTablesNoEarlyReturn(sns, old, basename, save_summary, save_sim, by) ==
    LET t1 == FillTables(<< >>, sns.items, basename, save_summary, save_sim, by)
        sum_keys == SumKeys(t1)
        t2 == AfterPop(t1, sum_keys)
        sum_table == Table(basename \o SummaryName, VStack(Popped(t1, sum_keys)), by)
        made == SensitivityCalls(sns.items, basename, save_summary, save_sim)
    IN  IF ~sns.set
        THEN [items |-> << >>, exc |-> "AttributeError", out |-> << >>, ret |-> "none"]
        ELSE IF sum_keys = << >>
        THEN [items |-> t2, exc |-> "ValueError", out |-> made, ret |-> "none"]
        ELSE [items |-> Put(t2, sum_table), exc |-> "none",
              out |-> made \o PopCalls(sum_keys) \o << AddCall(basename) >>,
              ret |-> "self._tables"]

\* make_tables (lines 74-84): the entries of _tables it leaves, the
\* exception it ends with, the calls it makes on the Sensitivity objects and
\* on the collection (out) and the value it returns (ret: "self._tables" is
\* the object stored in _tables, "none" is no value). sns is _sns_dict: [set |-> FALSE] models None,
\* whose .items() raises AttributeError at line 75 (after line 74 has
\* replaced _tables); vstack of an empty list raises ValueError at line 82
\* (after every pop, before add_datatable)
MakeTables(sns, old, basename, save_summary, save_sim, by) ==
    LET t0 == NewTableDict(old)
        t1 == FillTables(t0, sns.items, basename, save_summary, save_sim, by)
        sum_keys == SumKeys(t1)
        t2 == AfterPop(t1, sum_keys)
        sum_table == Table(basename \o SummaryName, VStack(Popped(t1, sum_keys)), by)
        made == SensitivityCalls(sns.items, basename, save_summary, save_sim)
    IN  IF ~sns.set
        THEN [items |-> t0, exc |-> "AttributeError", out |-> << >>, ret |-> "none"]
        ELSE IF ~save_summary
        THEN [items |-> t1, exc |-> "none", out |-> made, ret |-> "self._tables"]
        ELSE IF sum_keys = << >>
        THEN [items |-> t2, exc |-> "ValueError", out |-> made, ret |-> "none"]
        ELSE [items |-> Put(t2, sum_table), exc |-> "none",
              out |-> made \o PopCalls(sum_keys) \o << AddCall(basename) >>,
              ret |-> "self._tables"]

\* make_tables when the make_tables call on entry f of _sns_dict raises
\* (line 76): the entries before f have added their tables, entry f has
\* added its summary table or nothing yet (part), no later line is reached
MakeTablesRaising(sns, old, basename, save_summary, save_sim, by, f, part) ==
    LET t0 == NewTableDict(old)
        t1 == FillTables(t0, SubSeq(sns.items, 1, f - 1), basename, save_summary,
                         save_sim, by)
        key == sns.items[f].key
        t2 == IF part
              THEN SensitivityMakeTables(t1, basename \o key, key, save_summary, FALSE, by)
              ELSE t1
        made == SensitivityCalls(sns.items, basename, save_summary, save_sim)
    IN  [items |-> t2, exc |-> "CollaboratorError", out |-> SubSeq(made, 1, f),
         ret |-> "none"]

\* truth value of self._tables at line 88: None is false; TableDict defines
\* neither __bool__ nor __len__, so every TableDict is true, an empty one too
Truthy(t) == t.set

\* write_tables with the test of line 88 left out
WriteTablesAlways(t, filename) ==
    << Out("save_datatables", << >>, filename, FALSE, FALSE, Keys(t.items)) >>

\* write_tables (lines 88-89): the calls it makes on the collection
WriteTablesCalls(t, filename) ==
    IF Truthy(t)
    THEN << Out("save_datatables", << >>, filename, FALSE, FALSE, Keys(t.items)) >>
    ELSE << >>

\* the text written before and after each entry (lines 94 and 96)
Header == << " ---------\n" >>
Footer == << "---------\n" >>

\* print_summary (lines 93-96) for one entry: header line, the entry's own
\* summary, closing line
PrintEntry(key) ==
    << Out("stream.write", << >>, key \o Header, FALSE, FALSE, << >>),
       Out("Sensitivity.print_summary", key, << >>, FALSE, FALSE, << >>),
       Out("stream.write", << >>, Footer, FALSE, FALSE, << >>) >>

RECURSIVE PrintSummaryCalls(_)
\* print_summary (lines 93-96): the calls of the loop over _sns_dict
PrintSummaryCalls(sns) ==
    IF sns = << >> THEN << >>
    ELSE PrintEntry(sns[1].key) \o PrintSummaryCalls(Tail(sns))

\* run() passing the configured flag whatever the sample counts
SaveSummaryConfigured(cfg) == cfg.save_summary

\* run() suppressing the summary only when both sample counts are 0
SaveSummaryBothZero(cfg) ==
    IF cfg.nsky_sim = 0 /\ cfg.ndet_sim = 0 THEN FALSE ELSE cfg.save_summary

\* lines 103-105 of run(): the save_summary it passes to make_tables
SaveSummary(cfg) ==
    IF Max(cfg.nsky_sim, 1) * Max(cfg.ndet_sim, 1) = 1 THEN FALSE
    ELSE cfg.save_summary

\* run() without its call of eval_instrument
RunNextSkipping(p) ==
    CASE p = "idle"                    -> "eval_sky"
      [] p = "sky_evaluated"           -> "eval_sensitivities"
      [] p = "sensitivities_evaluated" -> "make_tables"
      [] OTHER                         -> "return"

\* run() (lines 100-106): the stage method it calls at each position
RunNext(p) ==
    CASE p = "idle"                    -> "eval_sky"
      [] p = "sky_evaluated"           -> "eval_instrument"
      [] p = "instrument_evaluated"    -> "eval_sensitivities"
      [] p = "sensitivities_evaluated" -> "make_tables"
      [] OTHER                         -> "return"

\* the position of run() once stage method fn has returned
Completed(fn) ==
    CASE fn = "eval_sky"           -> "sky_evaluated"
      [] fn = "eval_instrument"    -> "instrument_evaluated"
      [] fn = "eval_sensitivities" -> "sensitivities_evaluated"
      [] fn = "make_tables"        -> "tabulated"

\* run() with the exception of a stage method caught and the run going on
RaisedCaught(fn) == Completed(fn)

\* the position of run() once stage method fn has raised: lines 100-106
\* hold no try, so the exception leaves run() at once
Raised(fn) == "raised"

(***************************************************************************)
(* State                                                                   *)
(***************************************************************************)

VARIABLES
    cameras,    \* self.cameras: the camera hierarchy
    sns_dict,   \* self._sns_dict: [set |-> FALSE] is None
    tables,     \* self._tables: [set |-> FALSE] is None
    top,        \* the method of Instrument the caller has invoked, or "none"
    pc,         \* the position of that invocation
    sim_cfg,    \* run()'s argument sim_cfg
    basename,   \* run()'s argument basename
    calls,      \* the collaborator calls of the invocation so far, in order
    trace,      \* the stage methods the invocation has executed, with arguments
    exc,        \* the exception the invocation ended with, or "none"
    rerun,      \* whether _sns_dict and _tables held entries when run() began
    out,        \* the calls of the invocation on Sensitivity objects, on the
                \* table collection and on the output stream, in order
    ret,        \* the value returned by the make_tables call of the invocation
    again,      \* whether the eval_sensitivities call of the invocation found
                \* _sns_dict built from the hierarchy it is called with
    sns_from    \* the hierarchy the last eval_sensitivities call that returned
                \* was made with

vars == << cameras, sns_dict, tables, top, pc, sim_cfg, basename, calls, trace,
           exc, rerun, out, ret, again, sns_from >>

\* file names given to write_tables
Filenames == { << "f" >>, << "g" >> }

SimCfgs ==
    [nsky_sim : SimCounts, ndet_sim : SimCounts, freq_resol : FreqResols,
     save_summary : BOOLEAN, save_sim : BOOLEAN]

\* the configurations of the runs in which a collaborator may raise: the same
\* count for both stages, a frequency resolution, detail tables saved
RaiseCfgs ==
    { c \in SimCfgs : c.ndet_sim = c.nsky_sim /\ c.freq_resol = "res" /\ c.save_sim }

\* the frame of an Instrument nobody is calling
NoCfg ==
    [nsky_sim |-> 0, ndet_sim |-> 0, freq_resol |-> "None",
     save_summary |-> FALSE, save_sim |-> FALSE]

\* one executed stage method and the arguments it was given (-1, "n/a",
\* "" and FALSE stand for the arguments the method does not take)
StageCall(fn, n, r, bn, ss, sim) ==
    [fn |-> fn, n |-> n, r |-> r, basename |-> bn, save_summary |-> ss, save_sim |-> sim]

Unset == [set |-> FALSE, items |-> << >>]

Holding(items) == [set |-> TRUE, items |-> items]

\* entries built before a run() began
Aged(d) == [d EXCEPT !.items = [i \in 1..Len(d.items) |-> [d.items[i] EXCEPT !.by = "other"]]]

\* the tables _tables holds when a make_tables call begins
Stale(items) == [i \in 1..Len(items) |-> [items[i] EXCEPT !.by = "stale"]]

\* __init__ (lines 43-45)
Init ==
    /\ cameras \in Hierarchies
    /\ sns_dict = Unset
    /\ tables = Unset
    /\ top = "none"
    /\ pc = "idle"
    /\ sim_cfg = NoCfg
    /\ basename = << >>
    /\ calls = << >>
    /\ trace = << >>
    /\ exc = "none"
    /\ rerun = FALSE
    /\ out = << >>
    /\ ret = "none"
    /\ again = FALSE
    /\ sns_from = [set |-> FALSE, cams |-> << >>]

(***************************************************************************)
(* run(universe, sim_cfg, basename), one step per stage                    *)
(***************************************************************************)

\* line 100
run_eval_sky(cfg, bn) ==
    /\ top = "none"
    /\ RunNext(pc) = "eval_sky"
    /\ top' = "run"
    /\ sim_cfg' = cfg
    /\ basename' = bn
    /\ calls' = EvalSkyCalls(cameras, cfg.nsky_sim, cfg.freq_resol)
    /\ trace' = << StageCall("eval_sky", cfg.nsky_sim, cfg.freq_resol, << >>, FALSE, FALSE) >>
    /\ pc' = Completed("eval_sky")
    /\ sns_dict' = Aged(sns_dict)
    /\ tables' = Aged(tables)
    /\ rerun' = (sns_dict.items # << >> /\ tables.items # << >>)
    /\ UNCHANGED << cameras, exc, out, ret, again, sns_from >>

\* line 101
run_eval_instrument ==
    /\ top = "run"
    /\ RunNext(pc) = "eval_instrument"
    /\ calls' = calls \o EvalInstrumentCalls(cameras, sim_cfg.ndet_sim, sim_cfg.freq_resol)
    /\ trace' = Append(trace, StageCall("eval_instrument", sim_cfg.ndet_sim,
                                        sim_cfg.freq_resol, << >>, FALSE, FALSE))
    /\ pc' = Completed("eval_instrument")
    /\ UNCHANGED << cameras, sns_dict, tables, top, sim_cfg, basename, exc, rerun,
                    out, ret, again, sns_from >>

\* line 102
run_eval_sensitivities ==
    /\ top = "run"
    /\ RunNext(pc) = "eval_sensitivities"
    /\ sns_dict' = Holding(EvalSensitivities(sns_dict.items, cameras, "run"))
    /\ trace' = Append(trace, StageCall("eval_sensitivities", -1, "n/a", << >>, FALSE, FALSE))
    /\ pc' = Completed("eval_sensitivities")
    /\ again' = (sns_from.set /\ sns_from.cams = cameras)
    /\ sns_from' = [set |-> TRUE, cams |-> cameras]
    /\ UNCHANGED << cameras, tables, top, sim_cfg, basename, calls, exc, rerun, out, ret >>

\* lines 103-106
run_make_tables ==
    /\ top = "run"
    /\ RunNext(pc) = "make_tables"
    /\ LET save_summary == SaveSummary(sim_cfg)
           res == MakeTables(sns_dict, Stale(tables.items), basename, save_summary,
                             sim_cfg.save_sim, "run")
       IN  /\ tables' = Holding(res.items)
           /\ exc' = res.exc
           /\ pc' = IF res.exc = "none" THEN Completed("make_tables") ELSE "raised"
           /\ trace' = Append(trace, StageCall("make_tables", -1, "n/a", basename,
                                               save_summary, sim_cfg.save_sim))
           /\ out' = res.out
           /\ ret' = res.ret
    /\ UNCHANGED << cameras, sns_dict, top, sim_cfg, basename, calls, rerun, again,
                    sns_from >>

(***************************************************************************)
(* The stage methods called directly                                       *)
(***************************************************************************)

\* lines 50-55
eval_sky(nsamples, freq_resol) ==
    /\ top = "none"
    /\ top' = "eval_sky"
    /\ calls' = EvalSkyCalls(cameras, nsamples, freq_resol)
    /\ trace' = << StageCall("eval_sky", nsamples, freq_resol, << >>, FALSE, FALSE) >>
    /\ pc' = "returned"
    /\ UNCHANGED << cameras, sns_dict, tables, sim_cfg, basename, exc, rerun,
                    out, ret, again, sns_from >>

\* lines 57-62
eval_instrument(nsamples, freq_resol) ==
    /\ top = "none"
    /\ top' = "eval_instrument"
    /\ calls' = EvalInstrumentCalls(cameras, nsamples, freq_resol)
    /\ trace' = << StageCall("eval_instrument", nsamples, freq_resol, << >>, FALSE, FALSE) >>
    /\ pc' = "returned"
    /\ UNCHANGED << cameras, sns_dict, tables, sim_cfg, basename, exc, rerun,
                    out, ret, again, sns_from >>

\* lines 64-70
eval_sensitivities ==
    /\ top = "none"
    /\ top' = "eval_sensitivities"
    /\ sns_dict' = Holding(EvalSensitivities(sns_dict.items, cameras, "other"))
    /\ trace' = << StageCall("eval_sensitivities", -1, "n/a", << >>, FALSE, FALSE) >>
    /\ pc' = "returned"
    /\ again' = (sns_from.set /\ sns_from.cams = cameras)
    /\ sns_from' = [set |-> TRUE, cams |-> cameras]
    /\ UNCHANGED << cameras, tables, sim_cfg, basename, calls, exc, rerun, out, ret >>

\* lines 72-84
make_tables(bn, save_summary, save_sim) ==
    /\ top = "none"
    /\ top' = "make_tables"
    /\ LET res == MakeTables(sns_dict, Stale(tables.items), bn, save_summary, save_sim,
                         "other")
       IN  /\ tables' = Holding(res.items)
           /\ exc' = res.exc
           /\ pc' = IF res.exc = "none" THEN "returned" ELSE "raised"
           /\ out' = res.out
           /\ ret' = res.ret
    /\ trace' = << StageCall("make_tables", -1, "n/a", bn, save_summary, save_sim) >>
    /\ UNCHANGED << cameras, sns_dict, sim_cfg, basename, calls, rerun, again, sns_from >>

\* write_tables(filename) called directly (lines 86-89)
write_tables(filename) ==
    /\ top = "none"
    /\ top' = "write_tables"
    /\ out' = WriteTablesCalls(tables, filename)
    /\ pc' = "returned"
    /\ trace' = << StageCall("write_tables", -1, "n/a", filename, FALSE, FALSE) >>
    /\ UNCHANGED << cameras, sns_dict, tables, sim_cfg, basename, calls, exc, rerun,
                    ret, again, sns_from >>

\* print_summary(stream) called directly (lines 91-96): iterating over
\* _sns_dict while it is None raises AttributeError at line 93
print_summary ==
    /\ top = "none"
    /\ top' = "print_summary"
    /\ IF sns_dict.set
       THEN /\ out' = PrintSummaryCalls(sns_dict.items)
            /\ exc' = "none"
            /\ pc' = "returned"
       ELSE /\ out' = << >>
            /\ exc' = "AttributeError"
            /\ pc' = "raised"
    /\ trace' = << StageCall("print_summary", -1, "n/a", << >>, FALSE, FALSE) >>
    /\ UNCHANGED << cameras, sns_dict, tables, sim_cfg, basename, calls, rerun,
                    ret, again, sns_from >>

\* the invocation returns, or its exception reaches the caller: run() after
\* line 106, a stage method called directly after its last line
return ==
    /\ top # "none"
    /\ \/ top = "run" /\ RunNext(pc) = "return" /\ pc # "idle"
       \/ top # "run"
    /\ top' = "none"
    /\ pc' = "idle"
    /\ sim_cfg' = NoCfg
    /\ basename' = << >>
    /\ calls' = << >>
    /\ trace' = << >>
    /\ exc' = "none"
    /\ rerun' = FALSE
    /\ out' = << >>
    /\ ret' = "none"
    /\ again' = FALSE
    /\ UNCHANGED << cameras, sns_dict, tables, sns_from >>

\* the caller replaces the camera hierarchy between two invocations
\* (self.cameras is a plain attribute, set at line 43)
set_cameras(h) ==
    /\ top = "none"
    /\ h # cameras
    /\ cameras' = h
    /\ UNCHANGED << sns_dict, tables, top, pc, sim_cfg, basename, calls, trace, exc,
                    rerun, out, ret, again, sns_from >>

Next ==
    \/ \E cfg \in SimCfgs, bn \in Basenames : run_eval_sky(cfg, bn)
    \/ run_eval_instrument
    \/ run_eval_sensitivities
    \/ run_make_tables
    \/ \E n \in SimCounts, r \in FreqResols : eval_sky(n, r)
    \/ \E n \in SimCounts, r \in FreqResols : eval_instrument(n, r)
    \/ eval_sensitivities
    \/ \E bn \in Basenames, ss \in BOOLEAN, sim \in BOOLEAN : make_tables(bn, ss, sim)
    \/ \E f \in Filenames : write_tables(f)
    \/ print_summary
    \/ return
    \/ \E h \in Hierarchies : set_cameras(h)

Spec == Init /\ [][Next]_vars

(***************************************************************************)
(* Collaborators that raise                                                *)
(***************************************************************************)

\* line 100, when call f of eval_sky raises: universe.sample,
\* self._obs_effic.sample or the eval_sky of a camera
run_eval_sky_raises(cfg, bn) ==
    /\ top = "none"
    /\ RunNext(pc) = "eval_sky"
    /\ \E f \in 1..Len(EvalSkyCalls(cameras, cfg.nsky_sim, cfg.freq_resol)) :
        calls' = SubSeq(EvalSkyCalls(cameras, cfg.nsky_sim, cfg.freq_resol), 1, f)
    /\ top' = "run"
    /\ sim_cfg' = cfg
    /\ basename' = bn
    /\ trace' = << StageCall("eval_sky", cfg.nsky_sim, cfg.freq_resol, << >>, FALSE, FALSE) >>
    /\ pc' = Raised("eval_sky")
    /\ exc' = "CollaboratorError"
    /\ sns_dict' = Aged(sns_dict)
    /\ tables' = Aged(tables)
    /\ rerun' = (sns_dict.items # << >> /\ tables.items # << >>)
    /\ UNCHANGED << cameras, out, ret, again, sns_from >>

\* line 101, when call f of eval_instrument raises: the sample,
\* eval_optical_chains or eval_det_response of a camera
run_eval_instrument_raises ==
    /\ top = "run"
    /\ RunNext(pc) = "eval_instrument"
    /\ \E f \in 1..Len(EvalInstrumentCalls(cameras, sim_cfg.ndet_sim, sim_cfg.freq_resol)) :
        calls' = calls \o SubSeq(EvalInstrumentCalls(cameras, sim_cfg.ndet_sim,
                                                     sim_cfg.freq_resol), 1, f)
    /\ trace' = Append(trace, StageCall("eval_instrument", sim_cfg.ndet_sim,
                                        sim_cfg.freq_resol, << >>, FALSE, FALSE))
    /\ pc' = Raised("eval_instrument")
    /\ exc' = "CollaboratorError"
    /\ UNCHANGED << cameras, sns_dict, tables, top, sim_cfg, basename, rerun,
                    out, ret, again, sns_from >>

\* line 102, when Sensitivity(channel) raises for pair f (line 70): the
\* new odict of line 66 holds the entries of the pairs before f
run_eval_sensitivities_raises ==
    /\ top = "run"
    /\ RunNext(pc) = "eval_sensitivities"
    /\ \E f \in 1..Len(Pairs(cameras)) :
        sns_dict' = Holding(FillSnsDict(NewSnsDict(sns_dict.items),
                                        SubSeq(Pairs(cameras), 1, f - 1), "run"))
    /\ trace' = Append(trace, StageCall("eval_sensitivities", -1, "n/a", << >>, FALSE, FALSE))
    /\ pc' = Raised("eval_sensitivities")
    /\ exc' = "CollaboratorError"
    /\ sns_from' = [set |-> FALSE, cams |-> << >>]
    /\ UNCHANGED << cameras, tables, top, sim_cfg, basename, calls, rerun, out, ret,
                    again >>

\* lines 103-106, when the make_tables of entry f of _sns_dict raises
run_make_tables_raises ==
    /\ top = "run"
    /\ RunNext(pc) = "make_tables"
    /\ \E f \in 1..Len(sns_dict.items), part \in BOOLEAN :
        LET res == MakeTablesRaising(sns_dict, Stale(tables.items), basename,
                                     SaveSummary(sim_cfg), sim_cfg.save_sim, "run", f, part)
        IN  /\ tables' = Holding(res.items)
            /\ exc' = res.exc
            /\ out' = res.out
            /\ ret' = res.ret
    /\ pc' = Raised("make_tables")
    /\ trace' = Append(trace, StageCall("make_tables", -1, "n/a", basename,
                                        SaveSummary(sim_cfg), sim_cfg.save_sim))
    /\ UNCHANGED << cameras, sns_dict, top, sim_cfg, basename, calls, rerun, again,
                    sns_from >>

\* make_tables called directly (lines 72-84), when the make_tables of entry
\* f of _sns_dict raises
make_tables_raises(bn, save_summary, save_sim) ==
    /\ top = "none"
    /\ sns_dict.set
    /\ top' = "make_tables"
    /\ \E f \in 1..Len(sns_dict.items), part \in BOOLEAN :
        LET res == MakeTablesRaising(sns_dict, Stale(tables.items), bn, save_summary,
                                     save_sim, "other", f, part)
        IN  /\ tables' = Holding(res.items)
            /\ exc' = res.exc
            /\ out' = res.out
            /\ ret' = res.ret
    /\ pc' = "raised"
    /\ trace' = << StageCall("make_tables", -1, "n/a", bn, save_summary, save_sim) >>
    /\ UNCHANGED << cameras, sns_dict, sim_cfg, basename, calls, rerun, again, sns_from >>

\* the Instrument with collaborators that may raise
NextRaise ==
    \/ \E cfg \in RaiseCfgs, bn \in Basenames : run_eval_sky(cfg, bn)
    \/ run_eval_instrument
    \/ run_eval_sensitivities
    \/ run_make_tables
    \/ \E cfg \in RaiseCfgs, bn \in Basenames : run_eval_sky_raises(cfg, bn)
    \/ run_eval_instrument_raises
    \/ run_eval_sensitivities_raises
    \/ run_make_tables_raises
    \/ eval_sensitivities
    \/ \E bn \in Basenames, ss \in BOOLEAN : make_tables(bn, ss, TRUE)
    \/ \E bn \in Basenames, ss \in BOOLEAN : make_tables_raises(bn, ss, TRUE)
    \/ print_summary
    \/ return
    \/ \E h \in Hierarchies : set_cameras(h)

SpecRaise == Init /\ [][NextRaise]_vars

(***************************************************************************)
(* Properties                                                              *)
(***************************************************************************)

\* the stage methods executed by the invocation, in order
TraceFns == [i \in 1..Len(trace) |-> trace[i].fn]

\* whether the invocation has executed stage method fn
Did(fn) == \E i \in 1..Len(trace) : trace[i].fn = fn

\* the collaborator calls of the invocation made by functions of fns
CallsOf(fns) == SelectSeq(calls, LAMBDA c : c.fn \in fns)

RunStages == << "eval_sky", "eval_instrument", "eval_sensitivities", "make_tables" >>

\* the number of stages behind each position of run()
StagesBehind(p) ==
    CASE p = "sky_evaluated"           -> 1
      [] p = "instrument_evaluated"    -> 2
      [] p = "sensitivities_evaluated" -> 3
      [] OTHER                         -> 4

\* C1: at every position of a run(), the stages executed so far are the
\* first stages of eval_sky, eval_instrument, eval_sensitivities,
\* make_tables, in that order and once each, as many as the position says
\* (sky-evaluated 1, instrument-evaluated 2, sensitivities-evaluated 3,
\* tabulated 4): no stage is skipped, repeated or run out of order.
C1_RunStagesInOrder ==
    top = "run" =>
        /\ pc # "idle"
        /\ Len(trace) = StagesBehind(pc)
        /\ TraceFns = SubSeq(RunStages, 1, Len(trace))

C1_Witness == top = "run" /\ pc = "tabulated" /\ TraceFns = RunStages

\* C2: once eval_instrument(nsamples, freq_resol) has run, the camera calls
\* it made are, camera by camera in mapping order, sample(nsamples),
\* eval_optical_chains(nsamples, freq_resol), eval_det_response(nsamples,
\* freq_resol): three calls per camera, adjacent, in that order, all with
\* the nsamples eval_instrument was given.
C2_CameraCallOrder ==
    \A s \in 1..Len(trace) :
        trace[s].fn = "eval_instrument" =>
            LET made == CallsOf(InstFns)
                n == trace[s].n
                r == trace[s].r
            IN  /\ Len(made) = 3 * Len(cameras)
                /\ \A k \in 1..Len(cameras) :
                    /\ made[3 * k - 2] = Call("camera.sample", cameras[k].name, n, "n/a")
                    /\ made[3 * k - 1] =
                         Call("camera.eval_optical_chains", cameras[k].name, n, r)
                    /\ made[3 * k] =
                         Call("camera.eval_det_response", cameras[k].name, n, r)

C2_Witness ==
    /\ Did("eval_instrument")
    /\ Len(cameras) = 2
    /\ Len(CallsOf(InstFns)) = 6
    /\ calls[Len(calls)].n = 2

\* C3: no sky-stage call (universe.sample, obs_effic.sample, a camera's
\* eval_sky) comes after an instrument-stage call (a camera's sample,
\* eval_optical_chains, eval_det_response); universe.sample comes before
\* every camera's eval_sky; and once run() has executed eval_instrument,
\* universe.sample and the eval_sky of every camera have each been called
\* exactly once.
C3_SkyBeforeInstrument ==
    /\ \A i, j \in 1..Len(calls) :
        (calls[i].fn \in SkyFns /\ calls[j].fn \in InstFns) => i < j
    /\ \A i, j \in 1..Len(calls) :
        (calls[i].fn = "universe.sample" /\ calls[j].fn = "camera.eval_sky") => i < j
    /\ (top = "run" /\ Did("eval_instrument")) =>
        /\ Cardinality({ i \in 1..Len(calls) : calls[i].fn = "universe.sample" }) = 1
        /\ \A k \in 1..Len(cameras) :
            Cardinality({ i \in 1..Len(calls) :
                            /\ calls[i].fn = "camera.eval_sky"
                            /\ calls[i].cam = cameras[k].name }) = 1

C3_Witness ==
    /\ top = "run"
    /\ pc = "instrument_evaluated"
    /\ Len(cameras) = 2
    /\ Len(CallsOf(SkyFns)) = 4
    /\ Len(CallsOf(InstFns)) = 6

\* the number of samples run() computes at line 104
NSamples(cfg) == Max(cfg.nsky_sim, 1) * Max(cfg.ndet_sim, 1)

\* C4: the save_summary that run() passes to make_tables is False when
\* max(nsky_sim,1) * max(ndet_sim,1) = 1 and the configured
\* sim_cfg.save_summary otherwise; in the first case _tables holds no key
\* basename + "summary".
C4_SummarySuppression ==
    top = "run" =>
        \A s \in 1..Len(trace) :
            trace[s].fn = "make_tables" =>
                /\ NSamples(sim_cfg) = 1 =>
                    /\ trace[s].save_summary = FALSE
                    /\ IndexOf(tables.items, basename \o SummaryName) = 0
                /\ NSamples(sim_cfg) # 1 =>
                    trace[s].save_summary = sim_cfg.save_summary

C4_Witness ==
    /\ top = "run"
    /\ pc = "tabulated"
    /\ sim_cfg.save_summary
    /\ sim_cfg.save_sim
    /\ NSamples(sim_cfg) = 1
    /\ trace[4].save_summary = FALSE
    /\ Len(tables.items) = 4

\* the save_summary that the make_tables call of the invocation was given
PassedSaveSummary == trace[Len(trace)].save_summary

\* C5 as stated: run() passes False exactly when nsky_sim = 0 and
\* ndet_sim = 0, and the configured save_summary for every other pair of
\* sample counts.
C5_Original ==
    (top = "run" /\ Did("make_tables")) =>
        PassedSaveSummary =
            IF sim_cfg.nsky_sim = 0 /\ sim_cfg.ndet_sim = 0 THEN FALSE
            ELSE sim_cfg.save_summary

\* C5: run() passes False to make_tables exactly when nsky_sim <= 1 and
\* ndet_sim <= 1 (at most one sample in all), and the configured
\* save_summary for every other pair of non-negative sample counts.
C5_SuppressedUpToOneSample ==
    (top = "run" /\ Did("make_tables")) =>
        PassedSaveSummary =
            IF sim_cfg.nsky_sim <= 1 /\ sim_cfg.ndet_sim <= 1 THEN FALSE
            ELSE sim_cfg.save_summary

C5_Witness ==
    /\ top = "run"
    /\ pc = "tabulated"
    /\ sim_cfg.nsky_sim = 1
    /\ sim_cfg.ndet_sim = 0
    /\ sim_cfg.save_summary
    /\ PassedSaveSummary = FALSE

\* the (camera, channel) pairs of the hierarchy, in iteration order
AllPairs == Pairs(cameras)

\* the key of a pair: camera name then channel name, no separator
KeyOf(pair) == pair.cam \o pair.chan

\* camera names distinct, channel names distinct within each camera
DistinctNames ==
    /\ \A i, j \in 1..Len(cameras) : cameras[i].name = cameras[j].name => i = j
    /\ \A c \in 1..Len(cameras) : \A i, j \in 1..Len(cameras[c].channels) :
        cameras[c].channels[i] = cameras[c].channels[j] => i = j

\* the concatenated keys of the pairs are pairwise distinct
DistinctKeys ==
    \A i, j \in 1..Len(AllPairs) : KeyOf(AllPairs[i]) = KeyOf(AllPairs[j]) => i = j

\* _sns_dict holds exactly one entry per pair, the pair's own Sensitivity
\* under the pair's key
OneEntryPerPair ==
    /\ sns_dict.set
    /\ Len(sns_dict.items) = Len(AllPairs)
    /\ \A i \in 1..Len(AllPairs) :
        LET at == IndexOf(sns_dict.items, KeyOf(AllPairs[i]))
        IN  /\ at # 0
            /\ sns_dict.items[at].cam = AllPairs[i].cam
            /\ sns_dict.items[at].chan = AllPairs[i].chan

\* C6 as stated: after eval_sensitivities(), distinct camera names and
\* distinct channel names within each camera give one entry per pair.
C6_Original == (Did("eval_sensitivities") /\ DistinctNames) => OneEntryPerPair

\* C6: after eval_sensitivities(), for any camera hierarchy whose
\* concatenated keys camera_name + channel_name are pairwise distinct,
\* _sns_dict has exactly one entry per (camera, channel) pair: as many
\* entries as channels, each pair's Sensitivity under its key.
C6_OneEntryPerDistinctKey == (Did("eval_sensitivities") /\ DistinctKeys) => OneEntryPerPair

C6_Witness ==
    /\ Did("eval_sensitivities")
    /\ cameras = Hier2x2
    /\ Keys(sns_dict.items) = << <<"a", "x">>, <<"a", "y">>, <<"b", "x">>, <<"b", "y">> >>

\* C7: eval_sensitivities() ends without an error whatever the keys, and
\* for every key that several pairs share, _sns_dict holds a single entry
\* under it, built from the pair visited last.
C7_CollisionKeepsLast ==
    /\ (trace # << >> /\ trace[Len(trace)].fn = "eval_sensitivities") =>
        (exc = "none" /\ pc \in {"sensitivities_evaluated", "returned"})
    /\ Did("eval_sensitivities") =>
        \A i \in 1..Len(AllPairs) :
            LET same == { j \in 1..Len(AllPairs) : KeyOf(AllPairs[j]) = KeyOf(AllPairs[i]) }
                last == CHOOSE j \in same : \A k \in same : k <= j
                held == { e \in 1..Len(sns_dict.items) :
                            sns_dict.items[e].key = KeyOf(AllPairs[i]) }
            IN  /\ Cardinality(held) = 1
                /\ \A e \in held :
                    /\ sns_dict.items[e].cam = AllPairs[last].cam
                    /\ sns_dict.items[e].chan = AllPairs[last].chan

C7_Witness ==
    /\ Did("eval_sensitivities")
    /\ cameras = HierClash
    /\ Len(sns_dict.items) = 1
    /\ sns_dict.items[1].key = <<"a", "b", "c">>
    /\ sns_dict.items[1].cam = <<"a", "b">>

\* C8: when a run() has completed, every entry of _sns_dict and every
\* table of _tables was built by that run, whatever the two collections
\* held when it began.
C8_RunSupersedes ==
    (top = "run" /\ pc = "tabulated") =>
        /\ \A i \in 1..Len(sns_dict.items) : sns_dict.items[i].by = "run"
        /\ \A i \in 1..Len(tables.items) : tables.items[i].by = "run"

C8_Witness ==
    /\ top = "run"
    /\ pc = "tabulated"
    /\ rerun
    /\ Len(sns_dict.items) = 4
    /\ Len(tables.items) = 5

\* the make_tables call of the invocation, once it has ended (returned or
\* raised), was given save_summary = True
SummaryRequested == Did("make_tables") /\ trace[Len(trace)].save_summary

\* the basename that call was given
GivenBasename == trace[Len(trace)].basename

\* where the merged summary table basename + "summary" is in _tables, or 0
MergedAt == IndexOf(tables.items, GivenBasename \o SummaryName)

\* C9: after make_tables(basename, save_summary=True, save_sim) with at
\* least one Sensitivity in _sns_dict, the collection holds the merged
\* table under basename + "summary", no other key contains the summary
\* marker, and the merged table is the concatenation of the per-channel
\* summary tables, one per Sensitivity.
C9_OneMergedSummary ==
    (SummaryRequested /\ sns_dict.set /\ Len(sns_dict.items) >= 1) =>
        /\ exc = "none"
        /\ MergedAt # 0
        /\ \A k \in 1..Len(tables.items) :
            k # MergedAt => Find(tables.items[k].key, SummaryMarker) = -1
        /\ tables.items[MergedAt].rows =
             [k \in 1..Len(sns_dict.items) |-> Row(sns_dict.items[k].key, "summary")]

\* C10: after make_tables(basename, save_summary=True, save_sim=True),
\* whatever the basename and the camera and channel names, the collection
\* holds the per-sample detail table of every entry of _sns_dict, under
\* basename + key followed by the detail suffix, and the merged summary
\* table holds rows of per-channel summary tables only.
C10_DetailTablesKept ==
    (SummaryRequested /\ trace[Len(trace)].save_sim /\ sns_dict.set) =>
        /\ \A k \in 1..Len(sns_dict.items) :
            LET at == IndexOf(tables.items,
                              GivenBasename \o sns_dict.items[k].key \o SimsSuffix)
            IN  /\ at # 0
                /\ tables.items[at].rows = << Row(sns_dict.items[k].key, "sims") >>
        /\ MergedAt # 0 =>
            \A r \in 1..Len(tables.items[MergedAt].rows) :
                tables.items[MergedAt].rows[r].kind = "summary"

\* the last stage call is make_tables with save_summary false
PlainRequested == Did("make_tables") /\ ~trace[Len(trace)].save_summary

\* the save_sim flag that call was given
GivenSaveSim == trace[Len(trace)].save_sim

\* C11: make_tables(basename, save_summary=False, save_sim) does no
\* aggregation: it calls make_tables once on each Sensitivity of _sns_dict,
\* in order, with the prefix basename + key and both flags as given, pops
\* no table and adds none, leaves no table basename + "summary", and
\* returns the collection stored in _tables.
C11_NoAggregation ==
    (PlainRequested /\ sns_dict.set) =>
        /\ exc = "none"
        /\ Len(out) = Len(sns_dict.items)
        /\ \A k \in 1..Len(out) :
            /\ out[k].fn = "Sensitivity.make_tables"
            /\ out[k].on = sns_dict.items[k].key
            /\ out[k].name = GivenBasename \o sns_dict.items[k].key
            /\ out[k].save_summary = FALSE
            /\ out[k].save_sim = GivenSaveSim
        /\ MergedAt = 0
        /\ tables.set
        /\ ret = "self._tables"

\* make_tables("r_summary", False, True) called directly on four entries
C11_Witness ==
    /\ top = "make_tables"
    /\ PlainRequested
    /\ GivenSaveSim
    /\ GivenBasename # << >>
    /\ Len(sns_dict.items) = 4
    /\ Len(out) = 4
    /\ Len(tables.items) = 4
    /\ ret = "self._tables"

\* the file name the write_tables call of the invocation was given
GivenFilename == trace[Len(trace)].basename

\* C12: write_tables(filename) makes no call when _tables is unset (no
\* make_tables call has been made yet) and otherwise calls
\* save_datatables(filename) exactly once on the whole collection, also
\* when the collection holds no table; it raises nothing and changes
\* neither _tables nor _sns_dict.
C12_WriteTables ==
    [][top' = "write_tables" =>
        /\ tables' = tables
        /\ sns_dict' = sns_dict
        /\ exc' = "none"
        /\ pc' = "returned"
        /\ ~tables.set => out' = << >>
        /\ tables.set =>
            /\ Len(out') = 1
            /\ out'[1].fn = "save_datatables"
            /\ out'[1].name = GivenFilename'
            /\ out'[1].keys = Keys(tables.items)]_vars

\* write_tables on a collection that holds no table: save_datatables is called
C12_Witness ==
    /\ top = "write_tables"
    /\ tables.set
    /\ tables.items = << >>
    /\ Len(out) = 1
    /\ out[1].fn = "save_datatables"

\* C13: make_tables(basename, save_summary=True, save_sim) on a _sns_dict
\* that holds no entry finds no summary key, the concatenation of zero
\* tables raises, the error reaches the caller (run() included: nothing
\* follows it), no table is popped or added and there is no table
\* basename + "summary".
C13_EmptySummaryRaises ==
    (SummaryRequested /\ sns_dict.set /\ sns_dict.items = << >>) =>
        /\ exc = "ValueError"
        /\ pc = "raised"
        /\ top = "run" => RunNext(pc) = "return"
        /\ out = << >>
        /\ ret = "none"
        /\ MergedAt = 0
        /\ tables.items = << >>

\* run() on a hierarchy without cameras, with a summary requested and more
\* than one sample
C13_Witness ==
    /\ top = "run"
    /\ cameras = HierNone
    /\ SummaryRequested
    /\ sim_cfg.save_summary
    /\ sns_dict.set
    /\ sns_dict.items = << >>
    /\ exc = "ValueError"
    /\ pc = "raised"

\* the step is an eval_sensitivities call, inside run() or direct
ExecutesEvalSensitivities ==
    /\ trace' # trace
    /\ trace' # << >>
    /\ trace'[Len(trace')].fn = "eval_sensitivities"

\* C14: an eval_sensitivities call that follows an earlier one made with
\* the same hierarchy leaves _sns_dict with the same keys in the same
\* order, hence the same size; and every eval_sensitivities call, also one
\* after a hierarchy change, leaves no key that is not the key of a
\* (camera, channel) pair of the hierarchy at that call.
C14_IdempotentRebuild ==
    [][ExecutesEvalSensitivities =>
        /\ (sns_from.set /\ sns_from.cams = cameras) =>
               Keys(sns_dict'.items) = Keys(sns_dict.items)
        /\ \A k \in 1..Len(sns_dict'.items) :
               \E i \in 1..Len(AllPairs) : sns_dict'.items[k].key = KeyOf(AllPairs[i])]_vars

\* eval_sensitivities called directly a second time on the 2x2 hierarchy
C14_Witness ==
    /\ top = "eval_sensitivities"
    /\ again
    /\ cameras = Hier2x2
    /\ Len(sns_dict.items) = 4

\* the positions in the call log of the calls of fn
CallsAt(fn) == { i \in 1..Len(calls) : calls[i].fn = fn }

\* the number of samples held by the object that fn samples, after the calls
\* of the invocation (0: not sampled by it)
Held(fn) ==
    IF CallsAt(fn) = {} THEN 0
    ELSE SampleSize(calls[CHOOSE i \in CallsAt(fn) : \A j \in CallsAt(fn) : j <= i].n)

\* C15: once eval_sky(universe, n, r) has run, universe.sample and
\* obs_effic.sample have each been called exactly once, both with n, every
\* camera's eval_sky exactly once with r and no other sky-stage call has
\* been made; the sky model and obs_effic each hold n samples, one when
\* n = 0.
C15_EvalSkyDelegation ==
    \A s \in 1..Len(trace) :
        trace[s].fn = "eval_sky" =>
            LET n == trace[s].n
                r == trace[s].r
            IN  /\ Cardinality(CallsAt("universe.sample")) = 1
                /\ Cardinality(CallsAt("obs_effic.sample")) = 1
                /\ \A i \in CallsAt("universe.sample") \cup CallsAt("obs_effic.sample") :
                       calls[i].n = n
                /\ Len(CallsOf(SkyFns)) = 2 + Len(cameras)
                /\ \A k \in 1..Len(cameras) :
                       /\ Cardinality({ i \in CallsAt("camera.eval_sky") :
                                          calls[i].cam = cameras[k].name }) = 1
                       /\ \A i \in CallsAt("camera.eval_sky") : calls[i].r = r
                /\ Held("universe.sample") = (IF n = 0 THEN 1 ELSE n)
                /\ Held("obs_effic.sample") = (IF n = 0 THEN 1 ELSE n)

\* eval_sky(universe, 2, "res") called directly on two cameras
C15_Witness ==
    /\ top = "eval_sky"
    /\ Len(cameras) = 2
    /\ trace[1].n = 2
    /\ trace[1].r = "res"
    /\ Len(calls) = 4
    /\ Held("obs_effic.sample") = 2

\* what a collection holds, whoever built it
Content(d) ==
    [set |-> d.set,
     items |-> [i \in 1..Len(d.items) |-> [d.items[i] EXCEPT !.by = "any"]]]

\* the stage method the run() in progress called last
LastStage == trace[Len(trace)].fn

\* C17: in run(), once a stage method has raised (a collaborator call of
\* it failed, or make_tables failed by itself) the only step left is the
\* return to the caller, which changes neither _sns_dict nor _tables: no
\* later stage and no later collaborator call is made; the step that
\* raises leaves run() at position raised; and the eval_sky and
\* eval_instrument steps of run(), raising or not, leave the contents of
\* _sns_dict and _tables as they were, so that a run that fails in one of
\* them leaves both as they were when run() was called.
C17_AbortOnFailure ==
    [][/\ (top = "run" /\ exc # "none") =>
            /\ top' = "none"
            /\ sns_dict' = sns_dict
            /\ tables' = tables
       /\ (top' = "run" /\ exc = "none" /\ exc' # "none") =>
            /\ pc' = "raised"
            /\ Len(trace') = Len(trace) + 1
            /\ LastStage' = "eval_sky" => (CallsOf(InstFns)' = << >> /\ out' = << >>)
            /\ LastStage' \in {"eval_sky", "eval_instrument", "eval_sensitivities"} =>
                   (out' = << >> /\ ret' = "none")
       /\ (top' = "run" /\ trace' # trace
              /\ LastStage' \in {"eval_sky", "eval_instrument"}) =>
            /\ Content(sns_dict') = Content(sns_dict)
            /\ Content(tables') = Content(tables)]_vars

\* a run() that follows a completed one fails in eval_instrument: both
\* collections still hold the four entries and five tables of the earlier run
C17_Witness ==
    /\ top = "run"
    /\ pc = "raised"
    /\ exc = "CollaboratorError"
    /\ rerun
    /\ TraceFns = << "eval_sky", "eval_instrument" >>
    /\ Len(sns_dict.items) = 4
    /\ Len(tables.items) = 5

\* C18: after a make_tables call that raised - _sns_dict unset, the
\* make_tables of a Sensitivity failing, or vstack failing on no summary
\* table - _tables is a collection that holds none of the tables it held
\* when the call began; and as long as _sns_dict is unset (no
\* eval_sensitivities call has been made), a make_tables call and a
\* print_summary call both raise.
C18_FailedMakeTablesDropsOld ==
    /\ (Did("make_tables") /\ exc # "none") =>
        /\ exc \in {"AttributeError", "CollaboratorError", "ValueError"}
        /\ tables.set
        /\ \A k \in 1..Len(tables.items) : tables.items[k].by # "stale"
        /\ ~sns_dict.set => tables.items = << >>
    /\ (~sns_dict.set /\ (Did("make_tables") \/ Did("print_summary"))) =>
        /\ exc = "AttributeError"
        /\ pc = "raised"
        /\ out = << >>

\* make_tables called directly on four entries and five tables of a
\* completed run(), the make_tables of the third Sensitivity raising after
\* it added its summary table
C18_Witness ==
    /\ top = "make_tables"
    /\ exc = "CollaboratorError"
    /\ Len(sns_dict.items) = 4
    /\ Len(out) = 3
    /\ Len(tables.items) = 5
    /\ \A k \in 1..Len(tables.items) : tables.items[k].by = "other"
    /\ \A k \in 1..Len(sns_dict.items) : sns_dict.items[k].by = "run"

====
